---- MODULE Spec2Model ----
(***************************************************************************)
(* A state-machine model of the llc code generator driver                  *)
(* (tools/llc/llc.cpp, the build without NACL_SRPC): the output-name       *)
(* resolver GetFileNameRoot / GetOutputStream, the metadata writer         *)
(* WriteTextMetadataFile and the control flow of llc_main.                  *)
(*                                                                         *)
(* File names, backend names and feature strings are sequences of          *)
(* one-character strings, so that the character tests of the code are      *)
(* modelled character by character.  Triples are opaque strings.           *)
(***************************************************************************)
EXTENDS Integers, Sequences, FiniteSets, TLC

\* --------------------------------------------------------------- bounds
\* longest input file name explored by the output-name specification
MaxLen == 4
\* longest backend name explored by the extension specification
MaxNameLen == 3
\* longest -mattr list explored by the feature specification
MaxAttrs == 3
\* largest number of functions in a module
MaxFuncs == 2

\* ------------------------------------------------------- string helpers
\* all sequences over S of length 0..n
RECURSIVE SeqsUpTo(_, _)
SeqsUpTo(S, n) ==
  IF n = 0 THEN {<<>>}
  ELSE LET shorter == SeqsUpTo(S, n - 1)
       IN  shorter \cup {Append(s, c) : s \in {t \in shorter : Len(t) = n - 1}, c \in S}

\* the terminating NUL of a C string
NUL == "\\0"

\* s[i] of a NUL-terminated C string, i counted from 0
CharAt(s, i) == IF i < Len(s) THEN s[i + 1] ELSE NUL

Dash == <<"-">>
Empty == <<>>

VARIABLES
  pc,                    \* position of llc_main
  exitCode,              \* "none" while running, else the process exit status
  InputFilename, OutputFilename, MetadataTextFilename,
  FileType, OptLevel, TargetTriple, MCPU, MAttrs,
  LazyBitcode, ReduceMemoryFootprint, StartAfter, StopAfter,
  mod,                   \* "null" or "loaded"
  modTriple,             \* the module's target triple
  funcs,                 \* materialization state of each function, in declaration order
  TheTriple, TheTarget, FeaturesStr, OLvl,
  Out,                   \* compiled-code tool_output_file: "none", "open", "failed"
  OutKept,               \* Out->keep() was called
  Binary,                \* the mode the output was opened in
  PM,                    \* "none", "FunctionPassManager" or "PassManager"
  I,                     \* the Module::iterator of the per-function loop
  initCount, finalCount, \* doInitialization / doFinalization calls
  runs,                  \* times the stage sequence ran against each function
  FOS,                   \* units emitted to the output stream, in order
  MOut,                  \* metadata tool_output_file: "none", "open", "failed"
  MOutKept               \* MOut->keep() was called

opts == <<InputFilename, OutputFilename, MetadataTextFilename, FileType, OptLevel,
          TargetTriple, MCPU, MAttrs, LazyBitcode, ReduceMemoryFootprint,
          StartAfter, StopAfter>>
modv == <<mod, modTriple, funcs>>
tgtv == <<TheTriple, TheTarget, FeaturesStr, OLvl>>
outv == <<Out, OutKept, Binary>>
runv == <<PM, I, initCount, finalCount, runs, FOS>>
metav == <<MOut, MOutKept>>
vars == <<pc, exitCode, opts, modv, tgtv, outv, runv, metav>>

\* ------------------------------------------------ library: llvm::Triple
\* sys::getDefaultTargetTriple()
HostTriple == "x86_64-unknown-linux-gnu"

\* Triple::normalize: components are moved to their canonical position
Normalize(t) == IF t = "i386-linux" THEN "i386--linux" ELSE t

\* Triple::getOS
getOS(t) ==
  CASE t = "i386-pc-win32" -> "Win32"
    [] t = "powerpc-apple-darwin" -> "Darwin"
    [] t \in {"i386--linux", "i386-linux", HostTriple} -> "Linux"
    [] OTHER -> "UnknownOS"

\* the result of a failed lookup (a null Target pointer)
NoTarget == <<"(null)">>

\* TargetRegistry::lookupTarget with no -march given: by the triple's architecture
lookupTarget(t) ==
  CASE t \in {"i386--linux", "i386-linux", "i386-pc-win32"} -> <<"x", "8", "6">>
    [] t = "powerpc-apple-darwin" -> <<"p", "p", "c", "3", "2">>
    [] t = HostTriple -> <<"x", "8", "6", "-", "6", "4">>
    [] OTHER -> NoTarget

\* --------------------------------------- library: llvm::SubtargetFeatures
\* a feature string is a sequence of tokens, the first possibly a flag "+" / "-"
hasFlag(f) == f # <<>> /\ f[1] \in {"+", "-"}
StripFlag(f) == IF hasFlag(f) THEN Tail(f) ELSE f
isEnabled(f) == f # <<>> /\ f[1] = "+"
LowerTok(c) == IF c = "SSE2" THEN "sse2" ELSE c
lower(f) == [i \in 1..Len(f) |-> LowerTok(f[i])]
PrependFlag(f, IsEnabled) ==
  IF hasFlag(f) THEN f ELSE <<(IF IsEnabled THEN "+" ELSE "-")>> \o f

\* SubtargetFeatures::AddFeature(String, IsEnabled = true) on the vector Features
AddFeature(Features, String) ==
  IF String # <<>> THEN Append(Features, PrependFlag(lower(String), TRUE))
  ELSE Features

\* SubtargetFeatures::getDefaultSubtargetFeatures(Triple) on an empty vector
getDefaultSubtargetFeatures(t) ==
  IF t = "powerpc-apple-darwin" THEN AddFeature(<<>>, <<"altivec">>) ELSE <<>>

\* SubtargetFeatures::getString: the features joined with ","
RECURSIVE getString(_)
getString(Features) ==
  IF Features = <<>> THEN <<>>
  ELSE IF Len(Features) = 1 THEN Features[1]
  ELSE Features[1] \o <<",">> \o getString(Tail(Features))

\* Split(S, ","): the inverse of the join, as done when the target parses the string
RECURSIVE Split(_)
Split(S) ==
  IF S = <<>> THEN <<>>
  ELSE LET commas == {i \in 1..Len(S) : S[i] = ","}
       IN  IF commas = {} THEN <<S>>
           ELSE LET k == CHOOSE i \in commas : \A j \in commas : i <= j
                IN  <<SubSeq(S, 1, k - 1)>> \o Split(SubSeq(S, k + 1, Len(S)))

\* SubtargetFeatures::getFeatureBits: the toggles applied in order to the empty set
RECURSIVE ApplyFeatures(_, _)
ApplyFeatures(Bits, Fs) ==
  IF Fs = <<>> THEN Bits
  ELSE ApplyFeatures(IF isEnabled(Fs[1]) THEN Bits \cup {StripFlag(Fs[1])}
                     ELSE Bits \ {StripFlag(Fs[1])},
                     Tail(Fs))
getFeatureBits(S) == ApplyFeatures({}, Split(S))

\* -------------------------------------------------- llc.cpp: the resolvers
\* GetFileNameRoot with the length test off by one (a candidate slip of the code)
GetFileNameRoot_Len3(IFN) ==
  LET Len_ == Len(IFN)
  IN IF Len_ > 3 /\ IFN[Len_ - 2] = "."
        /\ ((IFN[Len_ - 1] = "b" /\ IFN[Len_] = "c")
            \/ (IFN[Len_ - 1] = "l" /\ IFN[Len_] = "l"))
     THEN SubSeq(IFN, 1, Len_ - 3)
     ELSE IFN

\* GetFileNameRoot: the basename of a filename
GetFileNameRoot(IFN) ==
  LET Len_ == Len(IFN)
  IN IF Len_ > 2 /\ IFN[Len_ - 2] = "."
        /\ ((IFN[Len_ - 1] = "b" /\ IFN[Len_] = "c")
            \/ (IFN[Len_ - 1] = "l" /\ IFN[Len_] = "l"))
     THEN SubSeq(IFN, 1, Len_ - 3)
     ELSE IFN

\* the extension switch with the "cpp" test reduced to its first two characters
OutputExtension_cp(Type, TargetName, OS) ==
  CASE Type = "CGFT_AssemblyFile" ->
         IF CharAt(TargetName, 0) = "c"
         THEN IF CharAt(TargetName, 1) = NUL THEN <<".", "c", "b", "e", ".", "c">>
              ELSE IF CharAt(TargetName, 1) = "p" THEN <<".", "c", "p", "p">>
              ELSE <<".", "s">>
         ELSE <<".", "s">>
    [] Type = "CGFT_ObjectFile" ->
         IF OS = "Win32" THEN <<".", "o", "b", "j">> ELSE <<".", "o">>
    [] Type = "CGFT_Null" -> <<".", "n", "u", "l", "l">>

\* the switch (FileType) of GetOutputStream that picks the extension
OutputExtension(Type, TargetName, OS) ==
  CASE Type = "CGFT_AssemblyFile" ->
         IF CharAt(TargetName, 0) = "c"
         THEN IF CharAt(TargetName, 1) = NUL THEN <<".", "c", "b", "e", ".", "c">>
              ELSE IF CharAt(TargetName, 1) = "p" /\ CharAt(TargetName, 2) = "p"
                   THEN <<".", "c", "p", "p">>
              ELSE <<".", "s">>
         ELSE <<".", "s">>
    [] Type = "CGFT_ObjectFile" ->
         IF OS = "Win32" THEN <<".", "o", "b", "j">> ELSE <<".", "o">>
    [] Type = "CGFT_Null" -> <<".", "n", "u", "l", "l">>

\* the name resolution without the test for the standard-input name
ResolveOutputFilename_NoStdin(OutFN, InFN, Type, TargetName, OS) ==
  IF OutFN = Empty
  THEN GetFileNameRoot(InFN) \o OutputExtension(Type, TargetName, OS)
  ELSE OutFN

\* the output name GetOutputStream leaves in OutputFilename
ResolveOutputFilename(OutFN, InFN, Type, TargetName, OS) ==
  IF OutFN = Empty
  THEN IF InFN = Dash THEN Dash
       ELSE GetFileNameRoot(InFN) \o OutputExtension(Type, TargetName, OS)
  ELSE OutFN

\* the mode switch with the Null case falling out of the binary group
NeedBinary_ObjectOnly(Type) == Type = "CGFT_ObjectFile"

\* "Decide if we need binary output"
NeedBinary(Type) == Type \in {"CGFT_ObjectFile", "CGFT_Null"}

\* the feature loop stopping one element early (a candidate slip of the code)
PackageFeatures_SkipLast(Triple, Attrs) ==
  IF Len(Attrs) # 0
  THEN LET RECURSIVE Add(_, _)
           Add(Features, i) ==
             IF i >= Len(Attrs) THEN Features
             ELSE Add(AddFeature(Features, Attrs[i]), i + 1)
       IN  getString(Add(getDefaultSubtargetFeatures(Triple), 1))
  ELSE <<>>

\* "Package up features to be passed to target/subtarget"
PackageFeatures(Triple, Attrs) ==
  IF Len(Attrs) # 0
  THEN LET RECURSIVE Add(_, _)
           Add(Features, i) ==
             IF i > Len(Attrs) THEN Features
             ELSE Add(AddFeature(Features, Attrs[i]), i + 1)
       IN  getString(Add(getDefaultSubtargetFeatures(Triple), 1))
  ELSE <<>>

\* the switch (OptLevel): the codegen level, or "invalid" for the default case
ParseOptLevel(c) ==
  CASE c = " " -> "Default"
    [] c = "0" -> "None"
    [] c = "1" -> "Less"
    [] c = "2" -> "Default"
    [] c = "3" -> "Aggressive"
    [] OTHER -> "invalid"

\* ---------------------------------------------------- input domains
ABc == <<"a", ".", "b", "c">>
NameChars == {".", "b", "c", "l", "-"}
TargetChars == {"c", "p", "x"}
FileTypes == {"CGFT_AssemblyFile", "CGFT_ObjectFile", "CGFT_Null"}
OptLevels == {" ", "0", "1", "2", "3", "9", "s"}
OverrideTriples == {"", "i386-linux", "bogus-unknown-unknown"}
ModuleTriples == {"", "powerpc-apple-darwin"}
PassNames == {"", "machine-scheduler", "no-such-pass"}
UserFeatures == {<<"sse2">>, <<"-", "sse2">>, <<"SSE2">>, <<"+", "mmx">>}
Help == <<"help">>

\* PassRegistry::getPassInfo(name) finds a pass
PassRegistered(name) == name = "machine-scheduler"

\* a load that materializes every function whether streamed or not
LoadedFuncs_AllResident(lazy) ==
  {[i \in 1..n |-> "Resident"] : n \in 0..MaxFuncs}

\* the module a successful load can produce: n functions, lazy when streamed
LoadedFuncs(lazy) ==
  {[i \in 1..n |-> IF lazy THEN "Lazy" ELSE "Resident"] : n \in 0..MaxFuncs}

\* ------------------------------------------------------- initial states
\* the state after cl::ParseCommandLineOptions, for the given option domains
InitWith(Inputs, Outputs, Types, Opts, Triples, CPUs, Attrs, Bools, Passes, Metas) ==
  /\ pc = "load" /\ exitCode = -1
  /\ InputFilename \in Inputs /\ OutputFilename \in Outputs
  /\ MetadataTextFilename \in Metas
  /\ FileType \in Types /\ OptLevel \in Opts /\ TargetTriple \in Triples
  /\ MCPU \in CPUs /\ MAttrs \in Attrs
  /\ LazyBitcode \in Bools /\ ReduceMemoryFootprint \in Bools
  /\ StartAfter \in Passes /\ StopAfter \in Passes
  /\ mod = "null" /\ modTriple = "" /\ funcs = <<>>
  /\ TheTriple = "" /\ TheTarget = NoTarget /\ FeaturesStr = <<>> /\ OLvl = "Default"
  /\ Out = "none" /\ OutKept = FALSE /\ Binary = FALSE
  /\ PM = "none" /\ I = 0 /\ initCount = 0 /\ finalCount = 0
  /\ runs = <<>> /\ FOS = <<>>
  /\ MOut = "none" /\ MOutKept = FALSE

Init ==
  InitWith({ABc}, {Empty}, FileTypes, OptLevels, OverrideTriples, {"", "help"},
           {<<>>, <<<<"sse2">>>>, <<Help>>}, BOOLEAN, PassNames, {"", "deps.txt"})

\* ------------------------------------------------------------ llc_main
\* return from llc_main (or exit from a library routine) with the given status
Exit(code) == pc' = "done" /\ exitCode' = code

SkipModule == MCPU = "help" \/ (MAttrs # <<>> /\ MAttrs[1] = Help)

\* "Load the module to be compiled..."
LoadModule ==
  /\ pc = "load"
  /\ IF ~SkipModule
     THEN \/ /\ Exit(1)                                  \* mod == 0
             /\ UNCHANGED modv
          \/ /\ mod' = "loaded"
             /\ modTriple' \in ModuleTriples
             /\ funcs' \in LoadedFuncs(LazyBitcode)
             /\ pc' = "triple" /\ UNCHANGED exitCode
     ELSE pc' = "triple" /\ UNCHANGED <<exitCode, modv>>
  /\ UNCHANGED <<opts, tgtv, outv, runv, metav>>

\* the triple taken from the module first and from -mtriple only when it has none
SetTriple_ModuleFirst ==
  /\ pc = "triple"
  /\ LET m == IF ~SkipModule /\ TargetTriple # "" /\ modTriple = ""
              THEN Normalize(TargetTriple)
              ELSE modTriple
         t == IF ~SkipModule THEN m ELSE Normalize(TargetTriple)
     IN /\ modTriple' = m
        /\ TheTriple' = IF t = "" THEN HostTriple ELSE t
  /\ pc' = "lookup"
  /\ UNCHANGED <<exitCode, opts, mod, funcs, TheTarget, FeaturesStr, OLvl, outv, runv, metav>>

\* "If we are supposed to override the target triple, do so now."
SetTriple ==
  /\ pc = "triple"
  /\ LET m == IF ~SkipModule /\ TargetTriple # "" THEN Normalize(TargetTriple)
              ELSE modTriple
         t == IF ~SkipModule THEN m ELSE Normalize(TargetTriple)
     IN /\ modTriple' = m
        /\ TheTriple' = IF t = "" THEN HostTriple ELSE t
  /\ pc' = "lookup"
  /\ UNCHANGED <<exitCode, opts, mod, funcs, TheTarget, FeaturesStr, OLvl, outv, runv, metav>>

\* the target lookup going on with the host's backend when none is found
LookupTarget_Fallback ==
  /\ pc = "lookup"
  /\ TheTarget' = IF lookupTarget(TheTriple) = NoTarget THEN lookupTarget(HostTriple)
                  ELSE lookupTarget(TheTriple)
  /\ pc' = "features" /\ UNCHANGED exitCode
  /\ UNCHANGED <<opts, modv, TheTriple, FeaturesStr, OLvl, outv, runv, metav>>

\* "Get the target specific parser."
LookupTarget ==
  /\ pc = "lookup"
  /\ TheTarget' = lookupTarget(TheTriple)
  /\ IF TheTarget' = NoTarget THEN Exit(1)
     ELSE pc' = "features" /\ UNCHANGED exitCode
  /\ UNCHANGED <<opts, modv, TheTriple, FeaturesStr, OLvl, outv, runv, metav>>

\* "Package up features to be passed to target/subtarget"
Features ==
  /\ pc = "features"
  /\ FeaturesStr' = PackageFeatures(TheTriple, MAttrs)
  /\ pc' = "optlevel"
  /\ UNCHANGED <<exitCode, opts, modv, TheTriple, TheTarget, OLvl, outv, runv, metav>>

\* the optimization-level switch treating an unknown code as the default level
OptLevelSwitch_Lenient ==
  /\ pc = "optlevel"
  /\ OLvl' = IF ParseOptLevel(OptLevel) = "invalid" THEN "Default"
             ELSE ParseOptLevel(OptLevel)
  /\ pc' = "machine" /\ UNCHANGED exitCode
  /\ UNCHANGED <<opts, modv, TheTriple, TheTarget, FeaturesStr, outv, runv, metav>>

\* switch (OptLevel)
OptLevelSwitch ==
  /\ pc = "optlevel"
  /\ IF ParseOptLevel(OptLevel) = "invalid"
     THEN Exit(1) /\ UNCHANGED OLvl
     ELSE OLvl' = ParseOptLevel(OptLevel) /\ pc' = "machine" /\ UNCHANGED exitCode
  /\ UNCHANGED <<opts, modv, TheTriple, TheTarget, FeaturesStr, outv, runv, metav>>

\* -mcpu=help or -mattr=+help: the subtarget prints its help and exits
HelpRequested ==
  MCPU = "help" \/ \E i \in 1..Len(Split(FeaturesStr)) : Split(FeaturesStr)[i] = <<"+">> \o Help

\* TheTarget->createTargetMachine(...) and the two asserts after it
CreateTargetMachine ==
  /\ pc = "machine"
  /\ IF HelpRequested THEN Exit(1)
     ELSE pc' = "open" /\ UNCHANGED exitCode
  /\ UNCHANGED <<opts, modv, tgtv, outv, runv, metav>>

\* GetOutputStream and "if (!Out) return 1": resolve the name, pick the mode, open
GetOutputStream ==
  /\ pc = "open"
  /\ OutputFilename' = ResolveOutputFilename(OutputFilename, InputFilename, FileType,
                                             TheTarget, getOS(TheTriple))
  /\ Binary' = NeedBinary(FileType)
  /\ \/ Out' = "open" /\ pc' = "pm" /\ UNCHANGED exitCode
     \/ Out' = "failed" /\ Exit(1)                       \* !error.empty()
  /\ UNCHANGED <<InputFilename, MetadataTextFilename, FileType, OptLevel, TargetTriple,
                 MCPU, MAttrs, LazyBitcode, ReduceMemoryFootprint, StartAfter, StopAfter,
                 modv, tgtv, OutKept, runv, metav>>

\* the pass manager chosen by the streaming flag alone
BuildPassManager_LazyOnly ==
  /\ pc = "pm"
  /\ PM' = IF LazyBitcode THEN "FunctionPassManager" ELSE "PassManager"
  /\ pc' = "startstop"
  /\ UNCHANGED <<exitCode, opts, modv, tgtv, outv, I, initCount, finalCount, runs, FOS, metav>>

\* "Build up all of the passes that we want to do to the module."
BuildPassManager ==
  /\ pc = "pm"
  /\ PM' = IF LazyBitcode \/ ReduceMemoryFootprint THEN "FunctionPassManager"
           ELSE "PassManager"
  /\ pc' = "startstop"
  /\ UNCHANGED <<exitCode, opts, modv, tgtv, outv, I, initCount, finalCount, runs, FOS, metav>>

\* the -start-after / -stop-after lookups in the pass registry
StartStopAfter ==
  /\ pc = "startstop"
  /\ IF \/ StartAfter # "" /\ ~PassRegistered(StartAfter)
        \/ StopAfter # "" /\ ~PassRegistered(StopAfter)
     THEN Exit(1)
     ELSE pc' = "addpasses" /\ UNCHANGED exitCode
  /\ UNCHANGED <<opts, modv, tgtv, outv, runv, metav>>

\* the backend's answer looked at only after the pass manager was initialized
AddPassesToEmitFile_InitFirst ==
  /\ pc = "addpasses"
  /\ \/ Exit(1) /\ initCount' = initCount + 1
     \/ pc' = "run" /\ UNCHANGED <<exitCode, initCount>>
  /\ UNCHANGED <<opts, modv, tgtv, outv, PM, I, finalCount, runs, FOS, metav>>

\* the backend declining the file kind, with the output declared a success all the same
AddPassesToEmitFile_Keep ==
  /\ pc = "addpasses"
  /\ \/ Exit(1) /\ OutKept' = TRUE
     \/ pc' = "run" /\ UNCHANGED <<exitCode, OutKept>>
  /\ UNCHANGED <<opts, modv, tgtv, Out, Binary, runv, metav>>

\* "Ask the target to add backend passes as necessary."
AddPassesToEmitFile ==
  /\ pc = "addpasses"
  /\ \/ Exit(1)                                          \* the target declines
     \/ pc' = "run" /\ UNCHANGED exitCode
  /\ UNCHANGED <<opts, modv, tgtv, outv, runv, metav>>

\* the per-function strategy is the one the run takes
PerFunction == LazyBitcode \/ ReduceMemoryFootprint

\* P->doInitialization()
DoInitialization ==
  /\ pc = "run" /\ PerFunction
  /\ initCount' = initCount + 1
  /\ I' = 1
  /\ runs' = [i \in 1..Len(funcs) |-> 0]
  /\ pc' = "loop"
  /\ UNCHANGED <<exitCode, opts, modv, tgtv, outv, PM, finalCount, FOS, metav>>

\* the unit the stage sequence emits for the function at position i
EmitUnit(i) == i

\* Function::Dematerialize: the body is discarded, the placeholder kept
Dematerialize(F) == "Dematerialized"

\* the loop body emitting ahead of what was emitted before (a candidate slip)
RunOnFunction_Prepend ==
  /\ pc = "loop" /\ I <= Len(funcs)
  /\ \/ /\ funcs[I] = "Lazy"
        /\ Exit(1)
        /\ UNCHANGED <<funcs, I, runs, FOS>>
     \/ /\ runs' = [runs EXCEPT ![I] = @ + 1]
        /\ FOS' = <<EmitUnit(I)>> \o FOS
        /\ funcs' = [funcs EXCEPT ![I] = IF ReduceMemoryFootprint
                                           THEN Dematerialize(@) ELSE "Resident"]
        /\ I' = I + 1
        /\ UNCHANGED <<pc, exitCode>>
  /\ UNCHANGED <<opts, mod, modTriple, tgtv, outv, PM, initCount, finalCount, metav>>

\* the loop body running a second time against a function before the increment
RunOnFunction_NoAdvance ==
  /\ pc = "loop" /\ I <= Len(funcs)
  /\ \/ /\ funcs[I] = "Lazy"
        /\ Exit(1)
        /\ UNCHANGED <<funcs, I, runs, FOS>>
     \/ /\ runs' = [runs EXCEPT ![I] = @ + 1]
        /\ FOS' = Append(FOS, EmitUnit(I))
        /\ funcs' = [funcs EXCEPT ![I] = IF ReduceMemoryFootprint
                                           THEN Dematerialize(@) ELSE "Resident"]
        /\ I' = IF runs[I] = 0 THEN I ELSE I + 1
        /\ UNCHANGED <<pc, exitCode>>
  /\ UNCHANGED <<opts, mod, modTriple, tgtv, outv, PM, initCount, finalCount, metav>>

\* the loop body without the call of Dematerialize
RunOnFunction_NoDematerialize ==
  /\ pc = "loop" /\ I <= Len(funcs)
  /\ \/ /\ funcs[I] = "Lazy"
        /\ Exit(1)
        /\ UNCHANGED <<funcs, I, runs, FOS>>
     \/ /\ runs' = [runs EXCEPT ![I] = @ + 1]
        /\ FOS' = Append(FOS, EmitUnit(I))
        /\ funcs' = [funcs EXCEPT ![I] = "Resident"]
        /\ I' = I + 1
        /\ UNCHANGED <<pc, exitCode>>
  /\ UNCHANGED <<opts, mod, modTriple, tgtv, outv, PM, initCount, finalCount, metav>>

\* the loop body stepping over a function whose materialization fails
RunOnFunction_SkipLazy ==
  /\ pc = "loop" /\ I <= Len(funcs)
  /\ \/ /\ funcs[I] = "Lazy"
        /\ I' = I + 1
        /\ UNCHANGED <<pc, exitCode, funcs, runs, FOS>>
     \/ /\ runs' = [runs EXCEPT ![I] = @ + 1]
        /\ FOS' = Append(FOS, EmitUnit(I))
        /\ funcs' = [funcs EXCEPT ![I] = IF ReduceMemoryFootprint
                                           THEN Dematerialize(@) ELSE "Resident"]
        /\ I' = I + 1
        /\ UNCHANGED <<pc, exitCode>>
  /\ UNCHANGED <<opts, mod, modTriple, tgtv, outv, PM, initCount, finalCount, metav>>

\* one iteration of the loop over the module: P->run(*I), then I->Dematerialize()
RunOnFunction ==
  /\ pc = "loop" /\ I <= Len(funcs)
  /\ \/ /\ funcs[I] = "Lazy"                             \* the materialization fails
        /\ Exit(1)
        /\ UNCHANGED <<funcs, I, runs, FOS>>
     \/ /\ runs' = [runs EXCEPT ![I] = @ + 1]
        /\ FOS' = Append(FOS, EmitUnit(I))
        /\ funcs' = [funcs EXCEPT ![I] = IF ReduceMemoryFootprint
                                           THEN Dematerialize(@) ELSE "Resident"]
        /\ I' = I + 1
        /\ UNCHANGED <<pc, exitCode>>
  /\ UNCHANGED <<opts, mod, modTriple, tgtv, outv, PM, initCount, finalCount, metav>>

\* the finalization not waiting for the iterator to reach the end
DoFinalization_Early ==
  /\ pc = "loop"
  /\ finalCount' = finalCount + 1
  /\ pc' = "keep"
  /\ UNCHANGED <<exitCode, opts, modv, tgtv, outv, PM, I, initCount, runs, FOS, metav>>

\* P->doFinalization(), once the iterator has reached mod->end()
DoFinalization ==
  /\ pc = "loop" /\ I > Len(funcs)
  /\ finalCount' = finalCount + 1
  /\ pc' = "keep"
  /\ UNCHANGED <<exitCode, opts, modv, tgtv, outv, PM, I, initCount, runs, FOS, metav>>

\* PassManager::run(Module): what the whole-module run emits, in declaration order
WholeModuleOutput(F) == [i \in 1..Len(F) |-> EmitUnit(i)]

\* static_cast<PassManager*>(PM.get())->run(*mod)
RunOnModule ==
  /\ pc = "run" /\ ~PerFunction
  /\ initCount' = initCount + 1
  /\ runs' = [i \in 1..Len(funcs) |-> 1]
  /\ FOS' = FOS \o WholeModuleOutput(funcs)
  /\ finalCount' = finalCount + 1
  /\ pc' = "keep"
  /\ UNCHANGED <<exitCode, opts, modv, tgtv, outv, PM, I, metav>>

\* the end of the run going on to the metadata without declaring success
DeclareSuccess_Forgotten ==
  /\ pc = "keep"
  /\ pc' = "meta"
  /\ UNCHANGED <<exitCode, opts, modv, tgtv, outv, runv, metav>>

\* "Declare success.": Out->keep()
DeclareSuccess ==
  /\ pc = "keep"
  /\ OutKept' = TRUE
  /\ pc' = "meta"
  /\ UNCHANGED <<exitCode, opts, modv, tgtv, Out, Binary, runv, metav>>

\* the metadata step with the result of WriteTextMetadataFile ignored
WriteTextMetadataFile_IgnoreErr ==
  /\ pc = "meta"
  /\ IF MetadataTextFilename # ""
     THEN \/ MOut' = "failed" /\ UNCHANGED MOutKept
          \/ MOut' = "open" /\ MOutKept' = TRUE
     ELSE UNCHANGED metav
  /\ pc' = "return" /\ UNCHANGED exitCode
  /\ UNCHANGED <<opts, modv, tgtv, outv, runv>>

\* "Write out the metadata.": WriteTextMetadataFile when -metadata-text is given
WriteTextMetadataFile ==
  /\ pc = "meta"
  /\ IF MetadataTextFilename # ""
     THEN \/ MOut' = "failed" /\ Exit(1) /\ UNCHANGED MOutKept   \* !error.empty()
          \/ MOut' = "open" /\ MOutKept' = TRUE /\ pc' = "return" /\ UNCHANGED exitCode
     ELSE pc' = "return" /\ UNCHANGED <<exitCode, metav>>
  /\ UNCHANGED <<opts, modv, tgtv, outv, runv>>

\* return 0
ReturnSuccess ==
  /\ pc = "return"
  /\ Exit(0)
  /\ UNCHANGED <<opts, modv, tgtv, outv, runv, metav>>

Next ==
  \/ LoadModule
  \/ SetTriple
  \/ LookupTarget
  \/ Features
  \/ OptLevelSwitch
  \/ CreateTargetMachine
  \/ GetOutputStream
  \/ BuildPassManager
  \/ StartStopAfter
  \/ AddPassesToEmitFile
  \/ DoInitialization
  \/ RunOnFunction
  \/ DoFinalization
  \/ RunOnModule
  \/ DeclareSuccess
  \/ WriteTextMetadataFile
  \/ ReturnSuccess

Spec == Init /\ [][Next]_vars

\* ------------------------------------- specification of the output resolver
\* llc_main about to call GetOutputStream, for the given names, backends and kinds
InitOut(Inputs, Outputs, Targets, Triples, Types) ==
  /\ pc = "open" /\ exitCode = -1
  /\ InputFilename \in Inputs /\ OutputFilename \in Outputs
  /\ MetadataTextFilename = ""
  /\ FileType \in Types /\ OptLevel = " " /\ TargetTriple = ""
  /\ MCPU = "" /\ MAttrs = <<>>
  /\ LazyBitcode = FALSE /\ ReduceMemoryFootprint = FALSE
  /\ StartAfter = "" /\ StopAfter = ""
  /\ mod = "loaded" /\ modTriple \in Triples /\ funcs = <<>>
  /\ TheTriple = modTriple /\ TheTarget \in Targets /\ FeaturesStr = <<>>
  /\ OLvl = "Default"
  /\ Out = "none" /\ OutKept = FALSE /\ Binary = FALSE
  /\ PM = "none" /\ I = 0 /\ initCount = 0 /\ finalCount = 0
  /\ runs = <<>> /\ FOS = <<>>
  /\ MOut = "none" /\ MOutKept = FALSE

\* every input name up to MaxLen, against a few backends
InitNames ==
  InitOut(SeqsUpTo(NameChars, MaxLen), {Empty, <<"o">>},
          {<<"c">>, <<"c", "p", "p">>, <<"x", "8", "6">>},
          {"i386-pc-win32", "i386--linux"}, FileTypes)

\* every backend name up to MaxNameLen, against a few input names
InitBackends ==
  InitOut({ABc, Dash, <<"b", "c">>}, {Empty, <<"o">>},
          SeqsUpTo(TargetChars, MaxNameLen),
          {"i386-pc-win32", "i386--linux"}, FileTypes)

SpecNames == InitNames /\ [][GetOutputStream]_vars
SpecBackends == InitBackends /\ [][GetOutputStream]_vars

\* ---------------------------------- specification of the feature packaging
InitFeatures ==
  InitWith({ABc}, {Empty}, {"CGFT_AssemblyFile"}, {" "}, OverrideTriples, {""},
           SeqsUpTo(UserFeatures, MaxAttrs), {FALSE}, {""}, {""})

NextFeatures == LoadModule \/ SetTriple \/ LookupTarget \/ Features

SpecFeatures == InitFeatures /\ [][NextFeatures]_vars

\* ================================================================ claims
\* positions of llc_main after the pipeline run has completed
AfterRun == {"keep", "meta", "return", "done"}
\* the pipeline ran to completion: every function once, then the finalization
RunCompleted ==
  /\ initCount = 1 /\ finalCount = 1
  /\ Len(runs) = Len(funcs) /\ \A i \in 1..Len(funcs) : runs[i] = 1
  /\ PerFunction => I > Len(funcs)
\* some pass has executed
PassExecuted == initCount > 0 \/ finalCount > 0 \/ FOS # <<>> \/ \E i \in 1..Len(runs) : runs[i] > 0

\* C1: when llc_main has ended, either it returned 0 with the compiled-code output
\* committed and the metadata file (when -metadata-text is given) committed, or it
\* failed and neither artifact is committed.
C1_AllOrNothing ==
  pc = "done" =>
    \/ exitCode = 0 /\ OutKept /\ (MetadataTextFilename # "" => MOutKept)
    \/ exitCode # 0 /\ ~OutKept /\ ~MOutKept

\* C2: Out->keep() is called only after the pipeline run has completed (after
\* doFinalization in the per-function strategy, after the single run otherwise), and
\* an invocation that ends before any pass ran, with the output open (unregistered
\* start-after / stop-after pass, target declining the file kind), never keeps it.
C2_KeepOnlyAfterRun ==
  /\ OutKept => RunCompleted /\ pc \in AfterRun /\ Out = "open"
  /\ (pc = "done" /\ Out = "open" /\ ~PassExecuted) => (exitCode = 1 /\ ~OutKept)
C2_Witness ==
  pc = "meta" /\ OutKept /\ PerFunction /\ Len(funcs) = 2 /\ finalCount = 1

HasSuffix(s, suf) ==
  Len(s) >= Len(suf) /\ SubSeq(s, Len(s) - Len(suf) + 1, Len(s)) = suf
\* s begins with pre
HasPrefix(s, pre) == Len(s) >= Len(pre) /\ SubSeq(s, 1, Len(pre)) = pre
\* the input name without a trailing ".bc" or ".ll"
StripSuffix(s) ==
  IF HasSuffix(s, <<".", "b", "c">>) \/ HasSuffix(s, <<".", "l", "l">>)
  THEN SubSeq(s, 1, Len(s) - 3) ELSE s
\* the extension table of the output resolver
TableExtension(Type, Backend, OS) ==
  CASE Type = "CGFT_AssemblyFile" ->
         IF Backend = <<"c">> THEN <<".", "c", "b", "e", ".", "c">>
         ELSE IF HasPrefix(Backend, <<"c", "p", "p">>) THEN <<".", "c", "p", "p">>
         ELSE <<".", "s">>
    [] Type = "CGFT_ObjectFile" ->
         IF OS = "Win32" THEN <<".", "o", "b", "j">> ELSE <<".", "o">>
    [] Type = "CGFT_Null" -> <<".", "n", "u", "l", "l">>

\* C4, as stated: for every input name with no explicit output name, GetOutputStream
\* leaves as output name the input name without a trailing ".bc" / ".ll", followed
\* by the table's extension.
C4_DerivedName_Original ==
  [][(pc = "open" /\ OutputFilename = Empty) =>
       OutputFilename' = StripSuffix(InputFilename)
                           \o TableExtension(FileType, TheTarget, getOS(TheTriple))]_vars

\* C4, amended: for every input name other than the standard-input name "-", with no
\* explicit output name, GetOutputStream leaves as output name the input name without
\* a trailing ".bc" / ".ll" (the input name verbatim otherwise), followed by the
\* table's extension.
C4_DerivedName ==
  [][(pc = "open" /\ OutputFilename = Empty /\ InputFilename # Dash) =>
       OutputFilename' = StripSuffix(InputFilename)
                           \o TableExtension(FileType, TheTarget, getOS(TheTriple))]_vars
C4_Witness ==
  /\ pc = "pm" /\ InputFilename = <<".", "b", "c">>
  /\ FileType = "CGFT_AssemblyFile" /\ TheTarget = <<"x", "8", "6">>
  /\ OutputFilename = <<".", "s">>

\* C5: the extension GetOutputStream appends is the table's: for Assembly ".cbe.c" for
\* the backend named "c", ".cpp" for a backend name starting with "cpp", ".s" for any
\* other; for Object ".obj" on Windows and ".o" elsewhere; for Null ".null".
C5_ExtensionTable ==
  [][(pc = "open" /\ OutputFilename = Empty /\ InputFilename # Dash) =>
       /\ HasSuffix(OutputFilename', TableExtension(FileType, TheTarget, getOS(TheTriple)))
       /\ Len(OutputFilename') = Len(GetFileNameRoot(InputFilename))
            + Len(TableExtension(FileType, TheTarget, getOS(TheTriple)))]_vars
C5_Witness ==
  /\ pc = "pm" /\ InputFilename = ABc
  /\ FileType = "CGFT_AssemblyFile" /\ TheTarget = <<"c", "p", "p">>
  /\ OutputFilename = <<"a", ".", "c", "p", "p">>

\* C6: when -O holds a character other than ' ', '0', '1', '2', '3', llc_main never
\* gets past the optimization-level switch: no output is opened, no pass executes,
\* and when it has ended the exit code is 1.
C6_InvalidOptLevel ==
  OptLevel \notin {" ", "0", "1", "2", "3"} =>
    /\ pc \in {"load", "triple", "lookup", "features", "optlevel", "done"}
    /\ Out = "none" /\ ~OutKept /\ ~PassExecuted /\ MOut = "none"
    /\ pc = "done" => exitCode = 1
C6_Witness ==
  /\ pc = "done" /\ exitCode = 1 /\ OptLevel = "9"
  /\ mod = "loaded" /\ TheTarget # NoTarget

\* C7: when the resolved triple matches no registered backend, llc_main ends at the
\* lookup with exit code 1: no target is used instead, no output is opened or
\* committed and no pass executes.
C7_TargetNotFound ==
  (pc \notin {"load", "triple", "lookup"} /\ lookupTarget(TheTriple) = NoTarget) =>
    /\ pc = "done" /\ exitCode = 1 /\ TheTarget = NoTarget
    /\ Out = "none" /\ ~OutKept /\ ~PassExecuted /\ MOut = "none"
C7_Witness ==
  /\ pc = "done" /\ exitCode = 1 /\ TargetTriple = "bogus-unknown-unknown"
  /\ TheTriple = "bogus-unknown-unknown" /\ mod = "loaded"

\* C8: the metadata file is opened only when -metadata-text is non-empty, and only
\* after the pipeline run has completed and the compiled-code output was committed;
\* an invocation that ends without committing the output never opened it.
C8_MetadataAfterCommit ==
  /\ MOut # "none" => (MetadataTextFilename # "" /\ RunCompleted /\ OutKept)
  /\ (pc = "done" /\ ~OutKept) => (MOut = "none" /\ ~MOutKept)
C8_Witness ==
  pc = "return" /\ MOut = "open" /\ MOutKept /\ OutKept /\ MetadataTextFilename = "deps.txt"

\* the user's features as AddFeature records them
RECURSIVE UserToggles(_)
UserToggles(Attrs) ==
  IF Attrs = <<>> THEN <<>>
  ELSE <<PrependFlag(lower(Attrs[1]), TRUE)>> \o UserToggles(Tail(Attrs))

\* C9: for every list of user features, the empty list included, the feature string
\* handed to the target machine is the target's default features followed by the
\* user's features in the order given.
C9_DefaultsFirst ==
  pc = "optlevel" =>
    Split(FeaturesStr) = getDefaultSubtargetFeatures(TheTriple) \o UserToggles(MAttrs)

\* C10: a feature list ending with the same feature given twice resolves to the same
\* feature set as the list with that feature given once.
C10_Idempotent ==
  (pc = "optlevel" /\ Len(MAttrs) >= 2 /\ MAttrs[Len(MAttrs)] = MAttrs[Len(MAttrs) - 1]) =>
    getFeatureBits(FeaturesStr)
      = getFeatureBits(PackageFeatures(TheTriple, SubSeq(MAttrs, 1, Len(MAttrs) - 1)))
C10_Witness ==
  /\ pc = "optlevel" /\ MAttrs = << <<"sse2">>, <<"sse2">> >>
  /\ FeaturesStr = <<"+", "sse2", ",", "+", "sse2">>
  /\ getFeatureBits(FeaturesStr) = {<<"sse2">>}

\* C11: when the target declines the file kind (llc_main ends at the backend stage
\* installation), the exit code is 1 and no pass has executed: no doInitialization,
\* no run against a function or the module, no doFinalization; and up to that point
\* of llc_main no pass executes at all.
C11_DeclineBeforePasses ==
  /\ [](pc \in {"load", "triple", "lookup", "features", "optlevel", "machine", "open",
                "pm", "startstop", "addpasses"} => ~PassExecuted)
  /\ [][(pc = "addpasses" /\ pc' = "done") =>
          (exitCode' = 1 /\ ~PassExecuted' /\ initCount' = 0 /\ finalCount' = 0
           /\ runs' = <<>> /\ FOS' = <<>>)]_vars
C11_Witness ==
  /\ pc = "done" /\ exitCode = 1 /\ Out = "open" /\ PM = "FunctionPassManager"
  /\ StartAfter = "" /\ StopAfter = "machine-scheduler"
  /\ initCount = 0 /\ finalCount = 0 /\ FOS = <<>> /\ ~OutKept

\* C12: when llc_main has ended the exit code is 0 or 1, and it is 0 exactly when the
\* pipeline ran to completion, the output was committed and the metadata, when
\* requested, was written.
C12_ExitCode ==
  pc = "done" =>
    /\ exitCode \in {0, 1}
    /\ exitCode = 0 <=>
         (RunCompleted /\ OutKept /\ (MetadataTextFilename # "" => MOutKept))
C12_Witness ==
  /\ pc = "done" /\ exitCode = 0 /\ MetadataTextFilename = "deps.txt" /\ MOutKept
  /\ OutKept /\ Len(funcs) = 2

\* C13: the output is opened in binary mode when the file kind is Object or Null and
\* in text mode when it is Assembly, for an explicit output name as for a derived one.
C13_BinaryMode ==
  [][pc = "open" =>
       /\ FileType = "CGFT_AssemblyFile" => ~Binary'
       /\ FileType = "CGFT_ObjectFile" => Binary'
       /\ FileType = "CGFT_Null" => Binary'
       /\ FileType' = FileType]_vars
C13_Witness ==
  /\ pc = "pm" /\ Out = "open" /\ FileType = "CGFT_Null" /\ Binary
  /\ OutputFilename = <<"o">>

\* C14: with no explicit output name and the input name "-", GetOutputStream leaves
\* the output name "-": nothing is stripped and no extension is appended, whatever
\* the file kind, the backend and the OS.
C14_StdinToStdout ==
  [][(pc = "open" /\ OutputFilename = Empty /\ InputFilename = Dash) =>
       OutputFilename' = Dash]_vars
C14_Witness ==
  /\ pc = "pm" /\ InputFilename = Dash /\ OutputFilename = Dash
  /\ FileType = "CGFT_ObjectFile" /\ TheTarget = <<"c", "p", "p">>
  /\ getOS(TheTriple) = "Win32"

\* C15: under both strategies the stage sequence runs against each function at most
\* once, and a dematerialized function stays dematerialized and is not run again.
C15_AtMostOnce ==
  /\ [](\A i \in 1..Len(runs) : runs[i] <= 1)
  /\ [][\A i \in 1..Len(funcs) :
          funcs[i] = "Dematerialized" =>
            (Len(funcs') = Len(funcs) /\ funcs'[i] = "Dematerialized"
             /\ runs'[i] = runs[i])]_vars
C15_Witness ==
  /\ pc = "done" /\ exitCode = 0 /\ ReduceMemoryFootprint
  /\ funcs = <<"Dematerialized", "Dematerialized">> /\ runs = <<1, 1>>

\* C16: in the per-function run with -reduce-memory-footprint every function already
\* compiled (position below the iterator) has been dematerialized before the next one
\* is compiled; without the option no function is ever dematerialized.
C16_DiscardAfterCompile ==
  /\ (pc = "loop" /\ ReduceMemoryFootprint) =>
       \A i \in 1..Len(funcs) : i < I => (runs[i] = 1 /\ funcs[i] = "Dematerialized")
  /\ ~ReduceMemoryFootprint => \A i \in 1..Len(funcs) : funcs[i] # "Dematerialized"
C16_Witness ==
  /\ pc = "loop" /\ ReduceMemoryFootprint /\ ~LazyBitcode /\ I = 2
  /\ funcs = <<"Dematerialized", "Resident">> /\ runs = <<1, 0>>

\* the run has started as a per-function run / as a whole-module run
RanPerFunction == I > 0
RanWholeModule == initCount > 0 /\ I = 0

\* C17: the pass manager built is the FunctionPassManager exactly when
\* -streaming-bitcode or -reduce-memory-footprint is set and the PassManager
\* otherwise; the two flags never change; and the run treats the pass manager as the
\* kind that was built.
C17_StrategyChosenOnce ==
  /\ [](PM # "none" =>
          (PM = "FunctionPassManager" <=> (LazyBitcode \/ ReduceMemoryFootprint)))
  /\ [](RanPerFunction => PM = "FunctionPassManager")
  /\ [](RanWholeModule => PM = "PassManager")
  /\ [][LazyBitcode' = LazyBitcode /\ ReduceMemoryFootprint' = ReduceMemoryFootprint
        /\ (PM # "none" => PM' = PM)]_vars
C17_Witness ==
  /\ pc = "loop" /\ RanPerFunction /\ PM = "FunctionPassManager"
  /\ ReduceMemoryFootprint /\ ~LazyBitcode

\* C18: in the per-function strategy doInitialization runs once, before the stage
\* sequence runs against any function, and doFinalization runs once, after it has run
\* against the last function; with no function, the one follows the other directly.
C18_InitializeFinalize ==
  PerFunction =>
    /\ initCount <= 1 /\ finalCount <= 1
    /\ (\E i \in 1..Len(runs) : runs[i] > 0) => initCount = 1
    /\ finalCount = 1 =>
         (initCount = 1 /\ I > Len(funcs) /\ \A i \in 1..Len(funcs) : runs[i] = 1)
    /\ pc \in {"keep", "meta", "return"} => (initCount = 1 /\ finalCount = 1)
    /\ pc = "loop" => (initCount = 1 /\ finalCount = 0)
C18_Witness ==
  /\ pc = "keep" /\ PerFunction /\ funcs = <<>> /\ initCount = 1 /\ finalCount = 1
  /\ FOS = <<>>

\* C19: the per-function run takes the functions in declaration order (those below
\* the iterator have run once, in order, the others not yet), has run every function
\* when it finalizes, leaves no compiled function Lazy, and a failed materialization
\* ends the invocation with exit code 1 without the function being compiled.
C19_InOrderAllResident ==
  /\ []((PerFunction /\ pc = "loop") =>
          /\ FOS = [i \in 1..(I - 1) |-> EmitUnit(i)]
          /\ \A i \in 1..Len(funcs) : runs[i] = (IF i < I THEN 1 ELSE 0))
  /\ []((PerFunction /\ finalCount = 1) =>
          /\ FOS = [i \in 1..Len(funcs) |-> EmitUnit(i)]
          /\ \A i \in 1..Len(funcs) : runs[i] = 1 /\ funcs[i] # "Lazy")
  /\ [][(pc = "loop" /\ I <= Len(funcs)) =>
          /\ runs'[I] = 1 => (funcs'[I] # "Lazy" /\ I' = I + 1)
          /\ runs'[I] = 0 =>
               (funcs[I] = "Lazy" /\ pc' = "done" /\ exitCode' = 1 /\ FOS' = FOS
                /\ funcs' = funcs)]_vars
C19_Witness ==
  /\ pc = "keep" /\ LazyBitcode /\ ~ReduceMemoryFootprint
  /\ funcs = <<"Resident", "Resident">> /\ FOS = <<1, 2>> /\ runs = <<1, 1>>

\* the functions whose body is resident
ResidentBodies == {i \in 1..Len(funcs) : funcs[i] = "Resident"}

\* C20, as stated: whenever -reduce-memory-footprint is set, at every point of the
\* per-function run at most one function body is resident, also for a module that
\* was loaded eagerly.
C20_OneResident_Original ==
  (ReduceMemoryFootprint /\ pc = "loop") => Cardinality(ResidentBodies) <= 1

\* C20, amended: whenever -reduce-memory-footprint and -streaming-bitcode are both
\* set, at every point of the invocation at most one function body is resident.
C20_OneResident ==
  (ReduceMemoryFootprint /\ LazyBitcode) => Cardinality(ResidentBodies) <= 1
C20_Witness ==
  /\ pc = "loop" /\ ReduceMemoryFootprint /\ LazyBitcode /\ I = 2
  /\ funcs = <<"Dematerialized", "Lazy">> /\ runs = <<1, 0>>

\* the triple has been resolved: the invocation got past the load and lines 360-369
TripleResolved ==
  /\ pc \notin {"load", "triple"}
  /\ ~(pc = "done" /\ mod = "null" /\ ~SkipModule)

\* the target lookup has been performed
LookupDone == TripleResolved /\ pc # "lookup"

====
